---------------------------- MODULE Spec2Model ----------------------------
(***************************************************************************)
(* Model of run.py (watersafetynz/KMKO): the birth-date normaliser         *)
(* (parse_any_date and its helpers) and the bulk CSV ingestion path        *)
(* (load_csv_flex, validate_row, the bulk branch of record_participation). *)
(*                                                                         *)
(* A Python str is a sequence of one-character strings.  A datetime is a   *)
(* triple <<year, month, day>>; None, and a raised ValueError where the    *)
(* caller treats it as "no date", is the empty tuple NoDate.               *)
(*                                                                         *)
(* dateutil.parser.parse is a library outside the repository: its answer   *)
(* to one call is an input of the model, drawn from LenientOutcomes.       *)
(*                                                                         *)
(* Of record_participation the POST of a bulk funder is modelled; the      *)
(* funder lookup, the GET and the single-entry form are not.               *)
(***************************************************************************)
EXTENDS Integers, Sequences, FiniteSets, TLC

VARIABLES
    today,              \* date.today() of the request
    padYear,            \* platform: does strftime("%Y") zero-pad to 4 digits
    dob_str,            \* parse_any_date: the raw argument
    prefer_day_first,   \* parse_any_date: the preference argument
    pc,                 \* position of the modelled request
    answers,            \* what dateutil answered to the calls made for dob_str
    res,                \* what parse_any_date(dob_str, prefer_day_first) gave
    res2,               \* what parse_any_date gave for the stripped res.iso
    file,               \* the uploaded CSV: its lines, each a sequence of cells
    bpc,                \* position in the bulk branch of record_participation
    loaded,             \* what load_csv_flex(file) returned or raised
    idx,                \* df.iterrows(): the 0-based index of the next row
    errors,             \* errors: <<row number, messages>> per failed row
    to_insert,          \* to_insert
    rowLog,             \* history, per row so far: validate_row's messages, what
                        \* dateutil answered, the calls of parse_any_date made
    dbCalls,            \* history: payloads passed to BulkInsertParticipantsJson
    outcome             \* the response: status and flashed message

dateVars == <<dob_str, prefer_day_first, pc, answers, res, res2>>
bulkVars == <<file, bpc, loaded, idx, errors, to_insert, rowLog,
              dbCalls, outcome>>
vars == <<today, padYear, dateVars, bulkVars>>

---------------------------------------------------------------------------
(* Bounds of the model *)

\* how many entries of PairVals the digit inputs are built from
NumPairs == 6

\* how many of them the inputs typed with separators are built from
NumTypedPairs == 3

\* the most data rows of an uploaded file, and the most columns
MaxRows == 2
MaxCols == 4

---------------------------------------------------------------------------
(* Strings *)

DigitChars == {"0", "1", "2", "3", "4", "5", "6", "7", "8", "9"}

DigitVal(c) ==
    CASE c = "0" -> 0 [] c = "1" -> 1 [] c = "2" -> 2 [] c = "3" -> 3
      [] c = "4" -> 4 [] c = "5" -> 5 [] c = "6" -> 6 [] c = "7" -> 7
      [] c = "8" -> 8 [] c = "9" -> 9

DigitChar(n) ==
    CASE n = 0 -> "0" [] n = 1 -> "1" [] n = 2 -> "2" [] n = 3 -> "3"
      [] n = 4 -> "4" [] n = 5 -> "5" [] n = 6 -> "6" [] n = 7 -> "7"
      [] n = 8 -> "8" [] n = 9 -> "9"

IsDigitChar(c) == c \in DigitChars

IsSpaceChar(c) == c = " "

\* str.strip()
RECURSIVE LStrip(_)
LStrip(s) ==
    IF s # <<>> /\ IsSpaceChar(Head(s)) THEN LStrip(Tail(s)) ELSE s

RECURSIVE RStrip(_)
RStrip(s) ==
    IF s # <<>> /\ IsSpaceChar(s[Len(s)])
        THEN RStrip(SubSeq(s, 1, Len(s) - 1))
        ELSE s

strip(s) == RStrip(LStrip(s))

\* re.sub(r"\D", "", s)
DigitsOnly(s) == SelectSeq(s, IsDigitChar)

\* str.isdigit(): non-empty and all digits
isdigit(s) == s # <<>> /\ \A i \in 1..Len(s) : IsDigitChar(s[i])

\* int(s) of a digit string
RECURSIVE ToInt(_)
ToInt(s) ==
    IF s = <<>> THEN 0
    ELSE 10 * ToInt(SubSeq(s, 1, Len(s) - 1)) + DigitVal(s[Len(s)])

\* s[a:b] of Python, 0-based and half-open
Slice(s, a, b) == SubSeq(s, a + 1, b)

---------------------------------------------------------------------------
(* Dates *)

NoDate == <<>>

IsLeap(y) == (y % 4 = 0 /\ y % 100 # 0) \/ y % 400 = 0

DaysInMonth(y, m) ==
    IF m = 2 THEN (IF IsLeap(y) THEN 29 ELSE 28)
    ELSE IF m \in {4, 6, 9, 11} THEN 30 ELSE 31

\* datetime(y, m, d) does not raise: MINYEAR..MAXYEAR, a real month and day
ValidDate(y, m, d) ==
    /\ y >= 1 /\ y <= 9999
    /\ m >= 1 /\ m <= 12
    /\ d >= 1 /\ d <= DaysInMonth(y, m)

\* dt1 > dt2 of two dates
Later(a, b) ==
    \/ a[1] > b[1]
    \/ a[1] = b[1] /\ a[2] > b[2]
    \/ a[1] = b[1] /\ a[2] = b[2] /\ a[3] > b[3]

\* build(y, m, d) inside a try/except ValueError: the datetime, or NoDate
build(y, m, d) == IF ValidDate(y, m, d) THEN <<y, m, d>> ELSE NoDate

YY_PIVOT == 30

\* _apply_century_sanity
apply_century_sanity(dt, td) ==
    IF Later(dt, td)
        THEN IF ValidDate(dt[1] - 100, dt[2], dt[3])
                THEN <<dt[1] - 100, dt[2], dt[3]>>
                ELSE <<dt[1] - 100, 2, 28>>
        ELSE dt

\* year_from_yy with the pivot compared by < instead of <=
year_from_yy_strict(yy2) ==
    LET val == ToInt(yy2) IN
    IF val < YY_PIVOT THEN 2000 + val ELSE 1900 + val

year_from_yy(yy2) ==
    LET val == ToInt(yy2) IN
    IF val <= YY_PIVOT THEN 2000 + val ELSE 1900 + val

\* the 8-digit decompositions, each <<y, m, d>>, in the order they are tried
DDMMYYYY(s) == <<ToInt(Slice(s, 4, 8)), ToInt(Slice(s, 2, 4)), ToInt(Slice(s, 0, 2))>>
YYYYMMDD(s) == <<ToInt(Slice(s, 0, 4)), ToInt(Slice(s, 4, 6)), ToInt(Slice(s, 6, 8))>>
MMDDYYYY(s) == <<ToInt(Slice(s, 4, 8)), ToInt(Slice(s, 0, 2)), ToInt(Slice(s, 2, 4))>>

\* attempts with YYYYMMDD tried first whatever the preference
attempts_year_first(s, pdf) ==
    IF pdf THEN <<YYYYMMDD(s), DDMMYYYY(s), MMDDYYYY(s)>>
           ELSE <<YYYYMMDD(s), MMDDYYYY(s), DDMMYYYY(s)>>

attempts(s, pdf) ==
    IF pdf THEN <<DDMMYYYY(s), YYYYMMDD(s), MMDDYYYY(s)>>
           ELSE <<MMDDYYYY(s), YYYYMMDD(s), DDMMYYYY(s)>>

\* the 6-digit decompositions
DDMMYY(s) == <<year_from_yy(Slice(s, 4, 6)), ToInt(Slice(s, 2, 4)), ToInt(Slice(s, 0, 2))>>
MMDDYY(s) == <<year_from_yy(Slice(s, 4, 6)), ToInt(Slice(s, 0, 2)), ToInt(Slice(s, 2, 4))>>

orders(s, pdf) ==
    IF pdf THEN <<DDMMYY(s), MMDDYY(s)>> ELSE <<MMDDYY(s), DDMMYY(s)>>

\* for ...: try: return build(...) except ValueError: continue; return None
RECURSIVE FirstBuilt(_)
FirstBuilt(as) ==
    IF as = <<>> THEN NoDate
    ELSE LET a == Head(as) IN
         IF build(a[1], a[2], a[3]) # NoDate
            THEN build(a[1], a[2], a[3])
            ELSE FirstBuilt(Tail(as))

\* _parse_digits_compact
parse_digits_compact(s, pdf) ==
    IF ~isdigit(s) THEN NoDate
    ELSE IF Len(s) = 8 THEN FirstBuilt(attempts(s, pdf))
    ELSE IF Len(s) = 6 THEN FirstBuilt(orders(s, pdf))
    ELSE NoDate

\* n as k digits, zero-padded
RECURSIVE Pad(_, _)
Pad(n, k) ==
    IF k = 0 THEN <<>> ELSE Append(Pad(n \div 10, k - 1), DigitChar(n % 10))

\* n as decimal digits, no padding
RECURSIVE Dec(_)
Dec(n) ==
    IF n < 10 THEN <<DigitChar(n)>> ELSE Append(Dec(n \div 10), DigitChar(n % 10))

\* dt.strftime("%Y-%m-%d"); whether %Y is padded for years < 1000 is the C library's
\* choice
strftime(dt, pad) ==
    (IF pad THEN Pad(dt[1], 4) ELSE Dec(dt[1]))
        \o <<"-">> \o Pad(dt[2], 2) \o <<"-">> \o Pad(dt[3], 2)

\* the messages of the ValueErrors
DateRequired == [text |-> "Date is required", input |-> <<>>]
InvalidDateFormat(d) == [text |-> "Invalid date format", input |-> d]
NoMsg == [text |-> "", input |-> <<>>]

Returned(dt, td, pad, cd, st) ==
    LET f == apply_century_sanity(dt, td) IN
    [ok |-> TRUE, dt |-> f, iso |-> strftime(f, pad), msg |-> NoMsg,
     compact |-> cd, stages |-> st]

Raised(m, cd, st) ==
    [ok |-> FALSE, dt |-> NoDate, iso |-> <<>>, msg |-> m,
     compact |-> cd, stages |-> st]

\* parse_any_date without the retry at the opposite convention
parse_any_date_no_retry(d, pdf, td, pad, l1, l2) ==
    LET s == strip(d)
        digits_only == DigitsOnly(s)
        cd == parse_digits_compact(digits_only, pdf)
    IN  IF s = <<>> THEN Raised(DateRequired, NoDate, <<>>)
        ELSE IF cd # NoDate THEN Returned(cd, td, pad, cd, <<"compact">>)
        ELSE IF l1 # NoDate
            THEN Returned(l1, td, pad, cd, <<"compact", "lenient">>)
        ELSE Raised(InvalidDateFormat(d), cd, <<"compact", "lenient">>)

\* parse_any_date.  l1 is what dateutil gives for (s, dayfirst = pdf) and l2 what
\* it gives for (s, dayfirst = not pdf); NoDate is a raised exception.  The result
\* also records the stages that ran and what the compact stage returned.
parse_any_date(d, pdf, td, pad, l1, l2) ==
    LET s == strip(d)
        digits_only == DigitsOnly(s)
        cd == parse_digits_compact(digits_only, pdf)
    IN  IF s = <<>> THEN Raised(DateRequired, NoDate, <<>>)
        ELSE IF cd # NoDate THEN Returned(cd, td, pad, cd, <<"compact">>)
        ELSE IF l1 # NoDate
            THEN Returned(l1, td, pad, cd, <<"compact", "lenient">>)
        ELSE IF l2 # NoDate
            THEN Returned(l2, td, pad, cd, <<"compact", "lenient", "flipped">>)
        ELSE Raised(InvalidDateFormat(d), cd, <<"compact", "lenient", "flipped">>)

---------------------------------------------------------------------------
(* Inputs *)

\* two-digit groups the digit inputs are built from
PairVals ==
    <<  <<"1","4">>, <<"0","2">>, <<"2","0">>, <<"2","9">>, <<"3","0">>,
        <<"9","5">>, <<"1","3">>, <<"0","0">>, <<"1","2">>, <<"3","1">> >>

Pairs(n) == {PairVals[i] : i \in 1..(IF n <= Len(PairVals) THEN n ELSE Len(PairVals))}

\* strings of 4, 6 and 8 digits over a set of pairs
DigitStrings(P) ==
    LET D4 == {a \o b : a \in P, b \in P} IN
    D4 \cup {a \o b : a \in D4, b \in P} \cup {a \o b : a \in D4, b \in D4}

\* a digit string as typed with separators: " dd/mm/.." or "yyyy-mm-.."
Typed(ds, fmt) ==
    CASE fmt = "slash" -> <<" ">> \o Slice(ds, 0, 2) \o <<"/">> \o Slice(ds, 2, 4)
                            \o <<"/">> \o Slice(ds, 4, Len(ds))
      [] fmt = "iso" -> Slice(ds, 0, 4) \o <<"-">> \o Slice(ds, 4, Len(ds))

\* every compact digit string over NumPairs pairs; the separated forms of those
\* over the first NumTypedPairs; blank strings, strings without digits to
\* compact, and 29 February 2400
DateInputs ==
    DigitStrings(Pairs(NumPairs))
        \cup {Typed(ds, f) : ds \in DigitStrings(Pairs(NumTypedPairs)), f \in {"slash", "iso"}}
        \cup {<<>>, <<" ">>, <<" ", " ">>, <<"x", "y">>, <<"1", "/", "2">>,
              <<"2", "9", "0", "2", "2", "4", "0", "0">>}

Todays == {<<2026, 11, 3>>, <<2030, 6, 15>>}

\* what one call of dateutil.parser.parse(s, fuzzy=True) may give: an exception
\* (NoDate), a past date, or a date of the coming century
LenientOutcomes == {NoDate, <<2013, 2, 14>>, <<2028, 2, 29>>}

\* the answers to draw for a call of dateutil inside parse_any_date(d, pdf): it is
\* not called when the input is blank or the compact stage returns a date, and
\* not called again when its first call returns.  It raises for a string in which
\* it finds no date: of the strings of this model, those without a digit (none
\* of them names a month or a weekday).
Asked(d, pdf) ==
    IF /\ strip(d) # <<>>
       /\ parse_digits_compact(DigitsOnly(strip(d)), pdf) = NoDate
       /\ DigitsOnly(d) # <<>>
        THEN LenientOutcomes
        ELSE {NoDate}

---------------------------------------------------------------------------
(* The normaliser called once, and once more on its own output *)

NoRes == [ok |-> FALSE, dt |-> NoDate, iso |-> <<>>, msg |-> NoMsg,
          compact |-> NoDate, stages |-> <<>>]

NoFrame == [ok |-> FALSE, mode |-> "", columns |-> <<>>, rows |-> <<>>]
NoOutcome == [status |-> 0, flash |-> ""]

\* no upload in progress
BulkIdle ==
    /\ file = <<>>
    /\ bpc = "off"
    /\ loaded = NoFrame
    /\ idx = 0
    /\ errors = <<>>
    /\ to_insert = <<>>
    /\ rowLog = <<>>
    /\ dbCalls = <<>>
    /\ outcome = NoOutcome

InitDate ==
    /\ today \in Todays
    /\ padYear \in BOOLEAN
    /\ dob_str \in DateInputs
    /\ prefer_day_first \in BOOLEAN
    /\ pc = "start"
    /\ answers = <<NoDate, NoDate>>
    /\ res = NoRes
    /\ res2 = NoRes
    /\ BulkIdle

\* parse_any_date(dob_str, prefer_day_first)
Normalize ==
    /\ pc = "start"
    /\ \E l1 \in Asked(dob_str, prefer_day_first) :
        \E l2 \in (IF l1 = NoDate THEN Asked(dob_str, prefer_day_first) ELSE {NoDate}) :
          /\ answers' = <<l1, l2>>
          /\ res' = parse_any_date(dob_str, prefer_day_first, today, padYear, l1, l2)
    /\ pc' = "parsed"
    /\ UNCHANGED <<today, padYear, dob_str, prefer_day_first, res2, bulkVars>>

\* parse_any_date on the separators-stripped output, same preference
Renormalize ==
    /\ pc = "parsed"
    /\ res.ok
    /\ \E l1 \in Asked(DigitsOnly(res.iso), prefer_day_first) :
        \E l2 \in (IF l1 = NoDate THEN Asked(DigitsOnly(res.iso), prefer_day_first)
                                 ELSE {NoDate}) :
          res2' = parse_any_date(DigitsOnly(res.iso), prefer_day_first, today,
                               padYear, l1, l2)
    /\ pc' = "reparsed"
    /\ UNCHANGED <<today, padYear, dob_str, prefer_day_first, answers, res, bulkVars>>

NextDate == Normalize \/ Renormalize

SpecDate == InitDate /\ [][NextDate]_vars

---------------------------------------------------------------------------
(* CSV helpers *)

FirstName == <<"F", "i", "r", "s", "t", "N", "a", "m", "e">>
LastName == <<"L", "a", "s", "t", "N", "a", "m", "e">>
DateOfBirth == <<"D", "a", "t", "e", "O", "f", "B", "i", "r", "t", "h">>

REQUIRED_COLS == <<FirstName, LastName, DateOfBirth>>

\* the dict HEADER_ALIASES as its items, <<key, value>>
HEADER_ALIASES ==
    <<
        <<<<"f", "i", "r", "s", "t", "n", "a", "m", "e">>,
            FirstName>>,
        <<<<"f", "i", "r", "s", "t", "_", "n", "a", "m", "e">>,
            FirstName>>,
        <<<<"g", "i", "v", "e", "n", "n", "a", "m", "e">>,
            FirstName>>,
        <<<<"g", "i", "v", "e", "n", "_", "n", "a", "m", "e">>,
            FirstName>>,
        <<<<"l", "a", "s", "t", "n", "a", "m", "e">>,
            LastName>>,
        <<<<"l", "a", "s", "t", "_", "n", "a", "m", "e">>,
            LastName>>,
        <<<<"s", "u", "r", "n", "a", "m", "e">>,
            LastName>>,
        <<<<"f", "a", "m", "i", "l", "y", "n", "a", "m", "e">>,
            LastName>>,
        <<<<"f", "a", "m", "i", "l", "y", "_", "n", "a", "m", "e">>,
            LastName>>,
        <<<<"d", "o", "b">>,
            DateOfBirth>>,
        <<<<"d", "a", "t", "e", "o", "f", "b", "i", "r", "t", "h">>,
            DateOfBirth>>,
        <<<<"d", "a", "t", "e", "_", "o", "f", "_", "b", "i", "r", "t", "h">>,
            DateOfBirth>>,
        <<<<"b", "i", "r", "t", "h", "d", "a", "t", "e">>,
            DateOfBirth>>,
        <<<<"b", "i", "r", "t", "h", "_", "d", "a", "t", "e">>,
            DateOfBirth>>
    >>

UpperChars ==
    <<"A", "B", "C", "D", "E", "F", "G", "H", "I", "J", "K", "L", "M", "N", "O", "P", "Q", "R", "S", "T", "U", "V", "W", "X", "Y", "Z">>
LowerChars ==
    <<"a", "b", "c", "d", "e", "f", "g", "h", "i", "j", "k", "l", "m", "n", "o", "p", "q", "r", "s", "t", "u", "v", "w", "x", "y", "z">>

\* str.lower(), one character
LowerChar(c) ==
    IF \E i \in 1..Len(UpperChars) : UpperChars[i] = c
        THEN LowerChars[CHOOSE i \in 1..Len(UpperChars) : UpperChars[i] = c]
        ELSE c

\* [a-z0-9]
IsKeyChar(c) == IsDigitChar(c) \/ \E i \in 1..Len(LowerChars) : LowerChars[i] = c

\* HEADER_ALIASES.get(key): the value, or None (the empty string of the model)
AliasGet(key) ==
    IF \E i \in 1..Len(HEADER_ALIASES) : HEADER_ALIASES[i][1] = key
        THEN HEADER_ALIASES[CHOOSE i \in 1..Len(HEADER_ALIASES) : HEADER_ALIASES[i][1] = key][2]
        ELSE <<>>

\* _canon_header
canon_header(name) ==
    LET lowered == [i \in 1..Len(name) |-> LowerChar(name[i])]
        key == SelectSeq(lowered, IsKeyChar)
    IN  AliasGet(key)

\* pd.read_csv(..., dtype=str).fillna(""): the first line names the columns.
\* The files of the model have a first line, and every line has as many cells
\* as the first (pandas raises for an empty upload and for a longer later line).
read_csv(f) == [columns |-> Head(f), rows |-> Tail(f)]

\* the positions of label k among cols, in order: what df[[k]] selects
Positions(cols, k) ==
    LET Is(j) == cols[j] = k IN
    SelectSeq([j \in 1..Len(cols) |-> j], Is)

\* df.columns = [_canon_header(c) or c for c in df.columns]
renamed(cols) ==
    [j \in 1..Len(cols) |->
        IF canon_header(cols[j]) # <<>> THEN canon_header(cols[j]) ELSE cols[j]]

\* load_csv_flex: the frame returned, or the ValueError raised
load_csv_flex(f) ==
    LET df == read_csv(f)
        cols == renamed(df.columns)
        sel == Positions(cols, FirstName) \o Positions(cols, LastName)
                    \o Positions(cols, DateOfBirth)
    IN  IF \A n \in 1..3 : \E j \in 1..Len(cols) : cols[j] = REQUIRED_COLS[n]
        THEN [ok |-> TRUE, mode |-> "headered",
              columns |-> [n \in 1..Len(sel) |-> cols[sel[n]]],
              rows |-> [i \in 1..Len(df.rows) |->
                            [n \in 1..Len(sel) |-> df.rows[i][sel[n]]]]]
        ELSE IF Len(Head(f)) >= 3
        THEN [ok |-> TRUE, mode |-> "headerless",
              columns |-> REQUIRED_COLS,
              rows |-> [i \in 1..Len(f) |-> SubSeq(f[i], 1, 3)]]
        ELSE [ok |-> FALSE, mode |-> "Missing required columns",
              columns |-> <<>>, rows |-> <<>>]

Required(field) == [text |-> field, input |-> <<>>]

\* validate_row that returns at the first failed check
validate_row_first(row, l1, l2) ==
    IF strip(row[1]) = <<>>
        THEN [errs |-> <<Required("FirstName is required")>>, calls |-> 0]
    ELSE IF strip(row[2]) = <<>>
        THEN [errs |-> <<Required("LastName is required")>>, calls |-> 0]
    ELSE IF strip(row[3]) = <<>>
        THEN [errs |-> <<Required("DateOfBirth is required")>>, calls |-> 0]
    ELSE LET r == parse_any_date(row[3], TRUE, today, padYear, l1, l2) IN
         [errs |-> IF r.ok THEN <<>> ELSE <<r.msg>>, calls |-> 1]

\* validate_row on the row <<FirstName, LastName, DateOfBirth>>: the messages,
\* and how many times it called parse_any_date
validate_row(row, l1, l2) ==
    LET e1 == IF strip(row[1]) = <<>>
                THEN <<Required("FirstName is required")>> ELSE <<>>
        e2 == IF strip(row[2]) = <<>>
                THEN <<Required("LastName is required")>> ELSE <<>>
        e3 == IF strip(row[3]) = <<>>
                THEN <<Required("DateOfBirth is required")>> ELSE <<>>
        r  == parse_any_date(row[3], TRUE, today, padYear, l1, l2)
        e4 == IF strip(row[3]) # <<>> /\ ~r.ok THEN <<r.msg>> ELSE <<>>
    IN  [errs |-> e1 \o e2 \o e3 \o e4,
         calls |-> IF strip(row[3]) # <<>> THEN 1 ELSE 0]

---------------------------------------------------------------------------
(* The bulk branch of record_participation *)

\* df after "Trim whitespace"
Df == [i \in 1..Len(loaded.rows) |->
          [n \in 1..Len(loaded.rows[i]) |-> strip(loaded.rows[i][n])]]

\* what follows the loop, with errors kept out of the decision
after_loop_unchecked(errs, ins) ==
    IF ins = <<>> THEN "no valid rows" ELSE "insert"

\* what follows the loop over the rows
after_loop(errs, ins) ==
    IF errs # <<>> THEN "validation failed"
    ELSE IF ins = <<>> THEN "no valid rows"
    ELSE "insert"

Respond(st, fl) ==
    /\ outcome' = [status |-> st, flash |-> fl]
    /\ bpc' = "done"

\* POST of a bulk funder up to the loop: the consent, file and size checks,
\* load_csv_flex and the trimming
Post ==
    /\ bpc = "start"
    /\ \E bulk_consent \in BOOLEAN, has_file \in BOOLEAN, too_large \in BOOLEAN,
          trim_raises \in BOOLEAN :
        LET df == load_csv_flex(file) IN
        IF ~bulk_consent THEN
            /\ Respond(400, "You must agree")
            /\ UNCHANGED loaded
        ELSE IF ~has_file THEN
            /\ Respond(400, "Please choose a CSV file")
            /\ UNCHANGED loaded
        ELSE IF too_large THEN
            /\ Respond(400, "File is too large")
            /\ UNCHANGED loaded
        ELSE IF ~df.ok THEN
            \* load_csv_flex raises
            /\ Respond(500, "Error processing CSV")
            /\ loaded' = df
        ELSE IF Len(df.columns) # 3 /\ trim_raises THEN
            \* df[c] is a DataFrame where the label c is repeated: before
            \* pandas 2.1 it has no map()
            /\ Respond(500, "Error processing CSV")
            /\ loaded' = df
        ELSE
            /\ loaded' = df
            /\ bpc' = "rows"
            /\ UNCHANGED outcome
    /\ UNCHANGED <<today, padYear, dateVars, file, idx, errors, to_insert,
                   rowLog, dbCalls>>

\* one iteration of "for idx, row in df.iterrows()"
Row ==
    /\ bpc = "rows"
    /\ idx < Len(Df)
    /\ IF Len(loaded.columns) # 3
       THEN \* row.get(c) is a Series where the label c is repeated, and
            \* "Series or ''" raises
            /\ Respond(500, "Error processing CSV")
            /\ UNCHANGED <<idx, errors, to_insert, rowLog>>
       ELSE
            LET row_dict == Df[idx + 1] IN
            \E l1 \in Asked(row_dict[3], TRUE) :
            \E l2 \in (IF l1 = NoDate THEN Asked(row_dict[3], TRUE) ELSE {NoDate}) :
                LET v == validate_row(row_dict, l1, l2)
                    row_errs == v.errs
                IN  /\ IF row_errs # <<>>
                       THEN /\ errors' = Append(errors, <<idx + 2, row_errs>>)
                            /\ rowLog' = Append(rowLog,
                                    [errs |-> row_errs, answers |-> <<l1, l2>>,
                                     validating |-> v.calls, calls |-> v.calls])
                            /\ UNCHANGED to_insert
                       ELSE /\ to_insert' = Append(to_insert,
                                [FirstName |-> row_dict[1],
                                 LastName |-> row_dict[2],
                                 DateISO |-> parse_any_date(row_dict[3], TRUE, today,
                                                          padYear, l1, l2).iso])
                            /\ rowLog' = Append(rowLog,
                                    [errs |-> row_errs, answers |-> <<l1, l2>>,
                                     validating |-> v.calls, calls |-> v.calls + 1])
                            /\ UNCHANGED errors
                    /\ idx' = idx + 1
                    /\ UNCHANGED <<bpc, outcome>>
    /\ UNCHANGED <<today, padYear, dateVars, file, loaded, dbCalls>>

\* after the loop: the validation report, "no valid rows", or the one insert
Finish ==
    /\ bpc = "rows"
    /\ idx = Len(Df)
    /\ LET next == after_loop(errors, to_insert) IN
       IF next = "validation failed" THEN
            /\ Respond(400, "Validation failed")
            /\ UNCHANGED dbCalls
       ELSE IF next = "no valid rows" THEN
            /\ Respond(400, "No valid rows")
            /\ UNCHANGED dbCalls
       ELSE
            /\ dbCalls' = Append(dbCalls,
                  [n \in 1..Len(to_insert) |->
                      [FirstName |-> to_insert[n].FirstName,
                       LastName |-> to_insert[n].LastName,
                       DateISO |-> to_insert[n].DateISO,
                       Consent |-> TRUE]])
            /\ \E db_raises \in BOOLEAN :
                  IF db_raises THEN Respond(500, "Error processing CSV")
                               ELSE Respond(200, "Uploaded")
    /\ UNCHANGED <<today, padYear, dateVars, file, loaded, idx, errors,
                   to_insert, rowLog>>

---------------------------------------------------------------------------
(* Uploaded files *)

\* header lines as typed, each name with the field it stands for (X: none)
HeaderLines ==
    <<
        << [name |-> <<"D", "O", "B">>, field |-> "D"],
           [name |-> <<"S", "u", "r", "n", "a", "m", "e">>, field |-> "L"],
           [name |-> <<"G", "i", "v", "e", "n", "N", "a", "m", "e">>, field |-> "F"],
           [name |-> <<"A", "g", "e">>, field |-> "X"] >>,
        << [name |-> <<"f", "i", "r", "s", "t", "_", "n", "a", "m", "e">>, field |-> "F"],
           [name |-> <<"L", "a", "s", "t", " ", "N", "a", "m", "e">>, field |-> "L"],
           [name |-> <<"B", "i", "r", "t", "h", "-", "D", "a", "t", "e">>, field |-> "D"],
           [name |-> <<"A", "g", "e">>, field |-> "X"] >>,
        << [name |-> <<"A", "g", "e">>, field |-> "X"],
           [name |-> <<"F", "i", "r", "s", "t", "N", "a", "m", "e">>, field |-> "F"],
           [name |-> <<"L", "A", "S", "T", "N", "A", "M", "E">>, field |-> "L"],
           [name |-> <<"d", "a", "t", "e", "o", "f", "b", "i", "r", "t", "h">>, field |-> "D"] >>,
        << [name |-> <<"d", "o", "b">>, field |-> "D"],
           [name |-> <<"f", "i", "r", "s", "t", "n", "a", "m", "e">>, field |-> "F"],
           [name |-> <<"s", "u", "r", "n", "a", "m", "e">>, field |-> "L"],
           [name |-> <<"B", "i", "r", "t", "h", "D", "a", "t", "e">>, field |-> "D"] >>,
        << [name |-> <<"F", "i", "r", "s", "t", "N", "a", "m", "e">>, field |-> "F"],
           [name |-> <<"L", "a", "s", "t", "N", "a", "m", "e">>, field |-> "L"],
           [name |-> <<"A", "g", "e">>, field |-> "X"],
           [name |-> <<"N", "o", "t", "e", "s">>, field |-> "X"] >>
    >>

Records ==
    <<
        <<<<"J", "o">>, <<"L", "e", "e">>, <<"1", "4", "/", "0", "2", "/", "2", "0", "1", "3">>>>,
        <<<<>>, <<"L", "e", "e">>, <<"1", "4", "0", "2", "2", "0", "1", "3">>>>,
        <<<<" ">>, <<>>, <<"0", "2", "1", "4", "2", "0", "1", "3">>>>,
        <<<<"J", "o">>, <<"L", "e", "e">>, <<" ">>>>,
        <<<<"J", "o">>, <<" ", "L", "e", "e">>, <<"x", "y">>>>
    >>

Extra == [name |-> <<"N", "o", "t", "e", "s">>, field |-> "X"]
Filler == <<"z", "z">>

\* header line h cut or filled to n columns
HeaderOf(h, n) == [j \in 1..n |-> IF j <= Len(h) THEN h[j] ELSE Extra]

\* the line of record r = <<first, last, dob>> under header hd
LineUnder(hd, r) ==
    [j \in 1..Len(hd) |->
        CASE hd[j].field = "F" -> r[1]
          [] hd[j].field = "L" -> r[2]
          [] hd[j].field = "D" -> r[3]
          [] OTHER -> Filler]

\* the line of record r in a file without header, n columns wide
LineBare(r, n) == [j \in 1..n |-> IF j <= 3 THEN r[j] ELSE Filler]

RECURSIVE SeqsUpTo(_, _)
SeqsUpTo(S, n) ==
    IF n = 0 THEN {<<>>}
    ELSE LET shorter == SeqsUpTo(S, n - 1) IN
         shorter \cup {Append(q, x) : q \in shorter, x \in S}

RecordSet == {Records[i] : i \in 1..Len(Records)}

Files ==
    LET bodies == SeqsUpTo(RecordSet, MaxRows) IN
    {<<[j \in 1..n |-> HeaderOf(HeaderLines[h], n)[j].name]>>
            \o [i \in 1..Len(b) |-> LineUnder(HeaderOf(HeaderLines[h], n), b[i])] :
        h \in 1..Len(HeaderLines), n \in 1..MaxCols, b \in bodies}
    \cup
    {[i \in 1..Len(b) |-> LineBare(b[i], n)] :
        n \in 1..MaxCols, b \in bodies \ {<<>>}}

InitBulk ==
    /\ today = <<2026, 11, 3>>
    /\ padYear = FALSE
    /\ dob_str = <<>> /\ prefer_day_first = TRUE /\ pc = "off"
    /\ answers = <<NoDate, NoDate>> /\ res = NoRes /\ res2 = NoRes
    /\ file \in Files
    /\ bpc = "start"
    /\ loaded = NoFrame
    /\ idx = 0
    /\ errors = <<>>
    /\ to_insert = <<>>
    /\ rowLog = <<>>
    /\ dbCalls = <<>>
    /\ outcome = NoOutcome

NextBulk == Post \/ Row \/ Finish

SpecBulk == InitBulk /\ [][NextBulk]_vars

---------------------------------------------------------------------------
(* Claims about the normaliser, checked under SpecDate *)

Parsed == pc # "start"

\* the digit-only candidate of the call
Candidate == DigitsOnly(strip(dob_str))

Valid(t) == ValidDate(t[1], t[2], t[3])

\* the first valid triple of a list, or NoDate
RECURSIVE FirstValid(_)
FirstValid(ts) ==
    IF ts = <<>> THEN NoDate
    ELSE IF Valid(Head(ts)) THEN Head(ts) ELSE FirstValid(Tail(ts))

\* C1: whenever parse_any_date returns, the date returned is a real calendar date
\* and is not later than today.
C1_NeverInFuture ==
    (Parsed /\ res.ok) => (Valid(res.dt) /\ ~Later(res.dt, today))

\* C2: for an 8-digit compact input the compact stage accepts, normalising the
\* output again, its separators stripped to 8 digits, gives the same output.
\* (Stated for outputs that are not in the future, so that what refutes it is
\* not the future date that refutes C1.)
C2_Idempotent ==
    (/\ pc = "reparsed"
     /\ isdigit(dob_str) /\ Len(dob_str) = 8
     /\ res.compact # NoDate
     /\ ~Later(res.dt, today)
     /\ Len(DigitsOnly(res.iso)) = 8)
        => (res2.ok /\ res2.iso = res.iso)

\* C3: with an 8-digit candidate the compact stage returns the first valid of
\* DMY, YMD, MDY when day-first is preferred and of MDY, YMD, DMY when it is not,
\* and returns no date only if all three are invalid.
C3_EightDigitOrder ==
    (Parsed /\ Len(Candidate) = 8) =>
        LET dmy == <<ToInt(SubSeq(Candidate, 5, 8)), ToInt(SubSeq(Candidate, 3, 4)),
                     ToInt(SubSeq(Candidate, 1, 2))>>
            ymd == <<ToInt(SubSeq(Candidate, 1, 4)), ToInt(SubSeq(Candidate, 5, 6)),
                     ToInt(SubSeq(Candidate, 7, 8))>>
            mdy == <<ToInt(SubSeq(Candidate, 5, 8)), ToInt(SubSeq(Candidate, 1, 2)),
                     ToInt(SubSeq(Candidate, 3, 4))>>
        IN  /\ res.compact = (IF prefer_day_first THEN FirstValid(<<dmy, ymd, mdy>>)
                                                  ELSE FirstValid(<<mdy, ymd, dmy>>))
            /\ (res.compact = NoDate) <=> (~Valid(dmy) /\ ~Valid(ymd) /\ ~Valid(mdy))

\* reached: day-first preferred, DMY and YMD invalid, MDY returned (02142014).
C3_Witness ==
    /\ Parsed /\ prefer_day_first
    /\ Candidate = <<"0", "2", "1", "4", "2", "0", "1", "4">>
    /\ res.compact = <<2014, 2, 14>>
    /\ res.iso = <<"2", "0", "1", "4", "-", "0", "2", "-", "1", "4">>

\* C4: with a 6-digit candidate the trailing YY is 2000+YY if YY <= 30 and 1900+YY
\* otherwise; DMY then MDY is tried when day-first is preferred (MDY then DMY when
\* not) and the first valid date returned; when neither is valid the compact stage
\* gives no date and the call goes on to the lenient stage or raises the
\* invalid-format error.
C4_SixDigitPivot ==
    (Parsed /\ Len(Candidate) = 6) =>
        LET yy == ToInt(SubSeq(Candidate, 5, 6))
            year == IF yy <= 30 THEN 2000 + yy ELSE 1900 + yy
            dmy == <<year, ToInt(SubSeq(Candidate, 3, 4)), ToInt(SubSeq(Candidate, 1, 2))>>
            mdy == <<year, ToInt(SubSeq(Candidate, 1, 2)), ToInt(SubSeq(Candidate, 3, 4))>>
        IN  /\ res.compact = (IF prefer_day_first THEN FirstValid(<<dmy, mdy>>)
                                                  ELSE FirstValid(<<mdy, dmy>>))
            /\ (~Valid(dmy) /\ ~Valid(mdy)) =>
                  /\ res.compact = NoDate
                  /\ res.stages = <<"compact", "lenient">>
                        \/ res.stages = <<"compact", "lenient", "flipped">>
                  /\ ~res.ok => res.msg = InvalidDateFormat(dob_str)

\* reached: 290295 gives no compact date and, dateutil failing twice, the
\* invalid-format error.
C4_Witness ==
    /\ Parsed /\ prefer_day_first
    /\ dob_str = <<"2", "9", "0", "2", "9", "5">>
    /\ res.compact = NoDate
    /\ ~res.ok /\ res.msg = InvalidDateFormat(dob_str)

\* C9: a blank input raises the empty-input error and no stage runs; the lenient
\* stage runs only when the compact stage gave no date (always so when the digit
\* count is not 6 or 8); the opposite convention is tried only after the lenient
\* attempt at the given convention failed; the invalid-format error, carrying the
\* original input, is raised exactly when all three failed.
C9_StageOrder ==
    Parsed =>
        IF strip(dob_str) = <<>>
        THEN ~res.ok /\ res.msg = DateRequired /\ res.stages = <<>>
        ELSE
            LET ran(st) == \E i \in 1..Len(res.stages) : res.stages[i] = st IN
            /\ res.stages # <<>> /\ res.stages[1] = "compact"
            /\ Len(Candidate) \notin {6, 8} => res.compact = NoDate
            /\ ran("lenient") <=> res.compact = NoDate
            /\ ran("flipped") <=> (res.compact = NoDate /\ answers[1] = NoDate)
            /\ ~res.ok <=>
                (res.compact = NoDate /\ answers[1] = NoDate /\ answers[2] = NoDate)
            /\ ~res.ok => res.msg = InvalidDateFormat(dob_str)
            /\ res.ok =>
                res.dt = apply_century_sanity(
                            IF res.compact # NoDate THEN res.compact
                            ELSE IF answers[1] # NoDate THEN answers[1]
                            ELSE answers[2], today)

\* reached: the compact stage and the first lenient attempt fail, the opposite
\* convention succeeds.
C9_Witness ==
    /\ Parsed
    /\ strip(dob_str) # dob_str
    /\ res.compact = NoDate /\ answers[1] = NoDate /\ answers[2] = <<2013, 2, 14>>
    /\ res.ok /\ res.stages = <<"compact", "lenient", "flipped">>
    /\ res.dt = <<2013, 2, 14>>

---------------------------------------------------------------------------
(* Claims about the bulk upload, checked under SpecBulk *)

\* load_csv_flex has run
Loaded == bpc \in {"rows", "done"} /\ loaded # NoFrame

\* the loop over the rows has run to its end
LoopDone == bpc = "done" /\ loaded.ok /\ Len(rowLog) = Len(Df)

\* the field a header name stands for, by the table of header lines
FieldOf(name) ==
    IF \E h \in 1..Len(HeaderLines) : \E j \in 1..Len(HeaderLines[h]) :
            HeaderLines[h][j].name = name
    THEN LET h == CHOOSE h \in 1..Len(HeaderLines) :
                    \E j \in 1..Len(HeaderLines[h]) : HeaderLines[h][j].name = name
             j == CHOOSE j \in 1..Len(HeaderLines[h]) : HeaderLines[h][j].name = name
         IN  HeaderLines[h][j].field
    ELSE "X"

\* the first column of the first line that stands for field k
ColumnOf(k) == CHOOSE j \in 1..Len(file[1]) : FieldOf(file[1][j]) = k

Resolved == \A k \in {"F", "L", "D"} : \E j \in 1..Len(file[1]) : FieldOf(file[1][j]) = k

\* C5: validate_row makes all its checks: one message per blank field of
\* FirstName, LastName, DateOfBirth, in that order; the normaliser is called if
\* and only if DateOfBirth is not blank, and its failure message is appended as
\* it is; a blank DateOfBirth gives "DateOfBirth is required" and no message of
\* the normaliser.
C5_ValidateRow ==
    \A i \in 1..Len(rowLog) :
        LET row == Df[i]
            blank(n) == strip(row[n]) = <<>>
            said(m) == \E n \in 1..Len(rowLog[i].errs) : rowLog[i].errs[n] = m
            p == parse_any_date(row[3], TRUE, today, padYear,
                              rowLog[i].answers[1], rowLog[i].answers[2])
            fields == (IF blank(1) THEN 1 ELSE 0) + (IF blank(2) THEN 1 ELSE 0)
                        + (IF blank(3) THEN 1 ELSE 0)
        IN  /\ said(Required("FirstName is required")) <=> blank(1)
            /\ said(Required("LastName is required")) <=> blank(2)
            /\ said(Required("DateOfBirth is required")) <=> blank(3)
            /\ rowLog[i].validating = (IF blank(3) THEN 0 ELSE 1)
            /\ blank(3) => Len(rowLog[i].errs) = fields
            /\ (~blank(3) /\ p.ok) => Len(rowLog[i].errs) = fields
            /\ (~blank(3) /\ ~p.ok) =>
                  /\ Len(rowLog[i].errs) = fields + 1
                  /\ rowLog[i].errs[fields + 1] = p.msg
                  /\ p.msg = InvalidDateFormat(row[3])

\* reached: a row with FirstName and LastName blank and a date that does not
\* parse: three messages.
C5_Witness ==
    \E i \in 1..Len(rowLog) :
        /\ Df[i][1] = <<>> /\ Df[i][2] = <<>> /\ Df[i][3] # <<>>
        /\ Len(rowLog[i].errs) = 2
        /\ \E k \in 1..Len(rowLog) :
              /\ Df[k][3] = <<"x", "y">>
              /\ rowLog[k].errs = <<InvalidDateFormat(<<"x", "y">>)>>

\* the errors list, were each failed row among the first k keyed by its line
\* number in the file
RECURSIVE ErrorsByLine(_)
ErrorsByLine(k) ==
    IF k = 0 THEN <<>>
    ELSE IF rowLog[k].errs = <<>> THEN ErrorsByLine(k - 1)
    ELSE Append(ErrorsByLine(k - 1),
                <<(IF loaded.mode = "headered" THEN k + 1 ELSE k), rowLog[k].errs>>)

\* C6: every row is validated whatever the errors of earlier rows, and each error
\* entry is keyed by the row's 1-based line number in the input: the k-th body
\* row of a file with a header is row k+1, the k-th row of a file loaded through
\* the headerless fallback is row k.
C6_RowNumbers ==
    (Loaded /\ loaded.ok) =>
        /\ errors = ErrorsByLine(Len(rowLog))
        /\ (bpc = "done" /\ outcome.status # 500) => Len(rowLog) = Len(Df)

\* C7: the bulk insert is executed only if no row gave a validation error and
\* there is a valid row, and then carries every row of the file; if a row has an
\* error nothing is inserted and the validation failure is reported; with no
\* error and no valid row "no valid rows" is reported and nothing is inserted.
C7_AllOrNothing ==
    /\ Len(dbCalls) <= 1
    /\ dbCalls # <<>> =>
          /\ LoopDone
          /\ \A i \in 1..Len(rowLog) : rowLog[i].errs = <<>>
          /\ Len(Df) >= 1
          /\ Len(dbCalls[1]) = Len(Df)
          /\ \A i \in 1..Len(Df) :
                /\ dbCalls[1][i].FirstName = Df[i][1]
                /\ dbCalls[1][i].LastName = Df[i][2]
                /\ dbCalls[1][i].DateISO # <<>>
    /\ (bpc = "done" /\ \E i \in 1..Len(rowLog) : rowLog[i].errs # <<>>) =>
          /\ dbCalls = <<>>
          /\ outcome = [status |-> 400, flash |-> "Validation failed"]
    /\ (LoopDone /\ Len(Df) = 0 /\ outcome.status # 500) =>
          /\ dbCalls = <<>>
          /\ outcome = [status |-> 400, flash |-> "No valid rows"]
    /\ (LoopDone /\ Len(Df) >= 1 /\ \A i \in 1..Len(rowLog) : rowLog[i].errs = <<>>) =>
          Len(dbCalls) = 1

\* reached: a two-row file, both rows valid, inserted in one call.
C7_Witness ==
    /\ bpc = "done" /\ Len(Df) = 2
    /\ Len(dbCalls) = 1 /\ Len(dbCalls[1]) = 2
    /\ outcome = [status |-> 200, flash |-> "Uploaded"]

\* C8: if the canonical names of the first line's cells include FirstName,
\* LastName and DateOfBirth, load_csv_flex returns every line after it projected on
\* exactly those three, whatever the order of the columns and the other columns;
\* otherwise the first line is data too and the first three columns are taken in
\* order; it fails exactly when the names are not all found and there are fewer
\* than three columns.
C8_LoadResolves ==
    Loaded =>
        IF Resolved
        THEN /\ loaded.ok /\ loaded.mode = "headered"
             /\ loaded.columns = REQUIRED_COLS
             /\ Len(loaded.rows) = Len(file) - 1
             /\ \A i \in 1..Len(loaded.rows) :
                    loaded.rows[i] = <<file[i + 1][ColumnOf("F")],
                                       file[i + 1][ColumnOf("L")],
                                       file[i + 1][ColumnOf("D")]>>
        ELSE IF Len(file[1]) >= 3
        THEN /\ loaded.ok /\ loaded.mode = "headerless"
             /\ loaded.columns = REQUIRED_COLS
             /\ loaded.rows = [i \in 1..Len(file) |-> SubSeq(file[i], 1, 3)]
        ELSE ~loaded.ok

\* C10: rows are converted to records with DateISO only if the batch has no
\* error, and parse_any_date is called once for each row, not a second time.
C10_NormalizedOnce ==
    /\ (bpc = "done" /\ to_insert # <<>>) => errors = <<>>
    /\ \A i \in 1..Len(rowLog) : rowLog[i].calls <= 1

============================================================================
